---- MODULE Spec2Model ----
(***************************************************************************)
(* Concurrent reachability-tree engine of src/src/baseline/parallel.py     *)
(* (one coordinator, one worker thread per subnet, FIFO queues) together   *)
(* with the sequential reference engine of src/src/baseline/baseline.py    *)
(* and the marking evaluators of src/src/common/petri_net/engine.py.       *)
(*                                                                         *)
(* Encoding.  Python lists and tuples are TLA+ sequences, so every index   *)
(* is shifted by one: place p, transition t and subnet sid of the source   *)
(* are p+1, t+1 and sid+1 here.  A dict is the sequence of its             *)
(* (key, value) items in insertion order; numpy arrays are sequences.      *)
(***************************************************************************)
EXTENDS Integers, Sequences, FiniteSets, TLC

\* The sentinel of an unbounded place.
Omega == -1

\* Largest token count of a merged marking the model lets the coordinator
\* accept; Python integers are unbounded.
MaxTok == 3

\* Largest number of subnets of an input net.
MaxSubnets == 3

\* Direct calls of the evaluators: largest token count and arc weight of the
\* arguments, longest history of known markings.
MaxVal == 1
MaxHist == 2

\* None as a node name ("from" of the root), as a transition and as a marking
\* (the shutdown message (None, None)); real transitions are >= 1.
NoneName == "None"
NoTrans == 0
NoMarking == <<>>

Range(s) == {s[i] : i \in DOMAIN s}

(***************************************************************************)
(* Input nets: the JSON object read by __main__ (M0, I_minus, I_plus,      *)
(* subnet_definitions).                                                    *)
(***************************************************************************)
SubnetDef(id, places, trans) ==
    [id |-> id, place_indices |-> places, trans_indices |-> trans]

NetInput(m0, im, ip, defs) ==
    [M0 |-> m0, I_minus |-> im, I_plus |-> ip, subnet_definitions |-> defs]

\* Two places, two transitions moving one token back and forth.
CycleMinus == << <<1, 0>>, <<0, 1>> >>
CyclePlus  == << <<0, 1>>, <<1, 0>> >>

\* one subnet owning both places and both transitions
NetCycleOne == NetInput(<<1, 0>>, CycleMinus, CyclePlus,
                        << SubnetDef(1, <<1, 2>>, <<1, 2>>) >>)

\* one subnet per place, both transitions owned by both subnets
NetCycleTwo == NetInput(<<1, 0>>, CycleMinus, CyclePlus,
                        << SubnetDef(1, <<1>>, <<1, 2>>),
                           SubnetDef(2, <<2>>, <<1, 2>>) >>)

\* no transition enabled at the initial marking
NetDead == NetInput(<<0, 0>>, CycleMinus, CyclePlus,
                    << SubnetDef(1, <<1, 2>>, <<1, 2>>) >>)

\* three subnets of one place each; the only transition takes one token
\* from place 1 and one from place 2 and is owned by subnets 1 and 2
NetJoinThree == NetInput(<<1, 1, 0>>,
                         << <<1>>, <<1>>, <<0>> >>,
                         << <<0>>, <<0>>, <<0>> >>,
                         << SubnetDef(1, <<1>>, <<1>>),
                            SubnetDef(2, <<2>>, <<1>>),
                            SubnetDef(3, <<3>>, <<>>) >>)

\* two independent subnets, each owning the transition that empties its place
NetSplitTwo == NetInput(<<1, 1>>,
                        << <<1, 0>>, <<0, 1>> >>,
                        << <<0, 0>>, <<0, 0>> >>,
                        << SubnetDef(1, <<1>>, <<1>>),
                           SubnetDef(2, <<2>>, <<2>>) >>)

\* a transition that touches no place and is owned by no subnet
NetNoOwner == NetInput(<<1>>, << <<0>> >>, << <<0>> >>,
                       << SubnetDef(1, <<1>>, <<>>) >>)

\* a source transition: place 1 grows without bound
NetGrow == NetInput(<<0>>, << <<0>> >>, << <<1>> >>,
                    << SubnetDef(1, <<1>>, <<1>>) >>)

\* place 1 is declared unbounded in M0; the transition moves the token of
\* place 2 into place 1
NetOmega == NetInput(<<Omega, 1>>,
                     << <<0>>, <<1>> >>,
                     << <<1>>, <<0>> >>,
                     << SubnetDef(1, <<1, 2>>, <<1>>) >>)

\* a bounded net in which one reachable marking strictly covers another:
\* transition 1 moves the token of place 3 to place 1, transition 2 moves it
\* to places 1 and 2
NetFork == NetInput(<<0, 0, 1>>,
                    << <<0, 0>>, <<0, 0>>, <<1, 1>> >>,
                    << <<1, 1>>, <<0, 1>>, <<0, 0>> >>,
                    << SubnetDef(1, <<1, 2, 3>>, <<1, 2>>) >>)

\* the cycle net with place 2 in no subnet
NetUncovered == NetInput(<<1, 0>>, CycleMinus, CyclePlus,
                         << SubnetDef(1, <<1>>, <<1, 2>>) >>)

\* the cycle net with place 2 in two subnets
NetOverlap == NetInput(<<1, 0>>, CycleMinus, CyclePlus,
                       << SubnetDef(1, <<1, 2>>, <<1, 2>>),
                          SubnetDef(2, <<2>>, <<1, 2>>) >>)

NamedNets == {NetCycleOne, NetCycleTwo, NetDead, NetJoinThree, NetSplitTwo,
              NetNoOwner, NetGrow, NetOmega, NetFork, NetUncovered, NetOverlap}

\* Every net of two places and one transition with weights 0 or 1 and an
\* initial marking over omega, 0 and 1, as one subnet or as one subnet per
\* place; a subnet owns the transition when one of its places is connected
\* to it.
SmallDefs(im, ip, split) ==
    LET own(p) == IF im[p][1] + ip[p][1] > 0 THEN <<1>> ELSE <<>>
    IN  IF split
        THEN << SubnetDef(1, <<1>>, own(1)), SubnetDef(2, <<2>>, own(2)) >>
        ELSE << SubnetDef(1, <<1, 2>>, <<1>>) >>

SmallNets ==
    {NetInput(m0, im, ip, SmallDefs(im, ip, split)) :
        m0 \in [1..2 -> {Omega, 0, 1}],
        im \in [1..2 -> [1..1 -> {0, 1}]],
        ip \in [1..2 -> [1..1 -> {0, 1}]],
        split \in BOOLEAN}

Nets == NamedNets \cup SmallNets

(***************************************************************************)
(* Subnet                                                                  *)
(***************************************************************************)
\* Subnet.__init__: local incidence matrices and the global -> local map
\* (a dict comprehension: for a repeated transition the last index wins).
Subnet(id, place_indices, trans_indices, I_minus, I_plus) ==
    [id |-> id,
     place_indices |-> place_indices,
     trans_indices |-> trans_indices,
     I_minus |-> [i \in DOMAIN place_indices |->
                    [j \in DOMAIN trans_indices |->
                        I_minus[place_indices[i]][trans_indices[j]]]],
     I_plus |-> [i \in DOMAIN place_indices |->
                    [j \in DOMAIN trans_indices |->
                        I_plus[place_indices[i]][trans_indices[j]]]],
     global_to_local_t |->
        [t \in Range(trans_indices) |->
            CHOOSE i \in DOMAIN trans_indices :
                /\ trans_indices[i] = t
                /\ \A j \in DOMAIN trans_indices :
                      trans_indices[j] = t => j <= i]]

\* Subnet.fire
fire(self, M_global, t) ==
    LET local_m == [i \in DOMAIN self.place_indices |->
                        M_global[self.place_indices[i]]]
    IN  IF t \notin DOMAIN self.global_to_local_t
        THEN local_m
        ELSE LET lt == self.global_to_local_t[t]
             IN  [i \in DOMAIN self.place_indices |->
                     local_m[i] - self.I_minus[i][lt] + self.I_plus[i][lt]]

\* __main__: the Subnet objects built from the subnet definitions
BuildSubnets(n) ==
    [s \in DOMAIN n.subnet_definitions |->
        Subnet(n.subnet_definitions[s].id,
               n.subnet_definitions[s].place_indices,
               n.subnet_definitions[s].trans_indices,
               n.I_minus, n.I_plus)]

\* __main__: num_transitions
NumTransitions(n) ==
    IF Len(n.I_minus) > 0 /\ Len(n.I_minus[1]) > 0 THEN Len(n.I_minus[1])
    ELSE IF Len(n.I_plus) > 0 /\ Len(n.I_plus[1]) > 0 THEN Len(n.I_plus[1])
    ELSE 0

\* __main__: transition_subnets[t] = [s.id for s in subnets if t in s.trans_indices]
TransitionSubnets(n) ==
    LET subs == BuildSubnets(n)
        Owns(s) == [t \in 1..NumTransitions(n) |-> t \in Range(subs[s].trans_indices)]
    IN  [t \in 1..NumTransitions(n) |->
            LET F[k \in 0..Len(subs)] ==
                    IF k = 0 THEN <<>>
                    ELSE IF Owns(k)[t] THEN Append(F[k - 1], subs[k].id)
                    ELSE F[k - 1]
            IN  F[Len(subs)]]

(***************************************************************************)
(* common/petri_net/engine.py                                              *)
(***************************************************************************)
\* get_enabled_transitions without the test for an unbounded place
get_enabled_transitions_NoOmega(incidencia_negativa, marcado) ==
    LET cols == IF Len(incidencia_negativa) = 0 THEN 0
                ELSE Len(incidencia_negativa[1])
        cond(p, t) == marcado[p] >= incidencia_negativa[p][t]
    IN  [t \in 1..cols |->
            IF \A p \in DOMAIN marcado : cond(p, t) THEN 1 ELSE 0]

\* get_enabled_transitions: the 0/1 vector over the columns of the matrix
get_enabled_transitions(incidencia_negativa, marcado) ==
    LET cols == IF Len(incidencia_negativa) = 0 THEN 0
                ELSE Len(incidencia_negativa[1])
        cond(p, t) == marcado[p] = -1 \/ marcado[p] >= incidencia_negativa[p][t]
    IN  [t \in 1..cols |->
            IF \A p \in DOMAIN marcado : cond(p, t) THEN 1 ELSE 0]

\* np.dot(incidence, vector_disparo)[p]
DotRow(row, vector_disparo) ==
    LET F[k \in 0..Len(row)] ==
            IF k = 0 THEN 0 ELSE F[k - 1] + row[k] * vector_disparo[k]
    IN  F[Len(row)]

\* fire_transition without the restoring of the unbounded places
fire_transition_NoRestore(marcado, incidence, vector_disparo) ==
    [p \in DOMAIN marcado |->
        marcado[p] + DotRow(incidence[p], vector_disparo)]

\* fire_transition
fire_transition(marcado, incidence, vector_disparo) ==
    [p \in DOMAIN marcado |->
        IF marcado[p] = -1 THEN -1
        ELSE marcado[p] + DotRow(incidence[p], vector_disparo)]

\* update_marking with the strict places of every known marking, covered
\* or not
update_marking_NoCover(marcado, marcados_conocidos) ==
    LET nuevo == marcado
        estricto(k, p) ==
            \/ nuevo[p] = -1 /\ marcados_conocidos[k][p] # -1
            \/ /\ nuevo[p] # -1
               /\ marcados_conocidos[k][p] # -1
               /\ nuevo[p] > marcados_conocidos[k][p]
        uniones(p) == \E k \in DOMAIN marcados_conocidos : estricto(k, p)
    IN  [p \in DOMAIN marcado |-> IF uniones(p) THEN -1 ELSE marcado[p]]

\* update_marking with the strict places of the first covered known marking
\* only, instead of the union over all of them
update_marking_FirstCovered(marcado, marcados_conocidos) ==
    LET nuevo == marcado
        cond(k, p) ==
            nuevo[p] = -1
            \/ (marcados_conocidos[k][p] # -1 /\ nuevo[p] >= marcados_conocidos[k][p])
        cumple_total(k) == \A p \in DOMAIN nuevo : cond(k, p)
        estricto(k, p) ==
            \/ nuevo[p] = -1 /\ marcados_conocidos[k][p] # -1
            \/ /\ nuevo[p] # -1
               /\ marcados_conocidos[k][p] # -1
               /\ nuevo[p] > marcados_conocidos[k][p]
        uniones(p) == \E k \in DOMAIN marcados_conocidos :
                          /\ cumple_total(k) /\ estricto(k, p)
                          /\ \A j \in 1..(k - 1) : ~cumple_total(j)
    IN  [p \in DOMAIN marcado |-> IF uniones(p) THEN -1 ELSE marcado[p]]

\* update_marking
update_marking(marcado, marcados_conocidos) ==
    LET nuevo == marcado
        cond(k, p) ==
            nuevo[p] = -1
            \/ (marcados_conocidos[k][p] # -1 /\ nuevo[p] >= marcados_conocidos[k][p])
        cumple_total(k) == \A p \in DOMAIN nuevo : cond(k, p)
        estricto(k, p) ==
            \/ nuevo[p] = -1 /\ marcados_conocidos[k][p] # -1
            \/ /\ nuevo[p] # -1
               /\ marcados_conocidos[k][p] # -1
               /\ nuevo[p] > marcados_conocidos[k][p]
        uniones(p) == \E k \in DOMAIN marcados_conocidos :
                          cumple_total(k) /\ estricto(k, p)
    IN  [p \in DOMAIN marcado |-> IF uniones(p) THEN -1 ELSE marcado[p]]

(***************************************************************************)
(* baseline/baseline.py: the sequential reference engine                   *)
(***************************************************************************)
\* get_vectores_disparo_from_enabled_transitions
get_vectores_disparo_from_enabled_transitions(enabled_transitions) ==
    LET F[k \in 0..Len(enabled_transitions)] ==
            IF k = 0 THEN <<>>
            ELSE IF enabled_transitions[k] = 1
                 THEN Append(F[k - 1],
                             [j \in DOMAIN enabled_transitions |->
                                 IF j = k THEN 1 ELSE 0])
                 ELSE F[k - 1]
    IN  F[Len(enabled_transitions)]

\* the firings (marcado, vector_disparo) appended for a marking
Firings(incidence_negativa, marcado) ==
    LET vs == get_vectores_disparo_from_enabled_transitions(
                  get_enabled_transitions(incidence_negativa, marcado))
    IN  [i \in DOMAIN vs |-> <<marcado, vs[i]>>]

\* the while loop of execute_petri_net on (firing_queue, marcados_visitados,
\* marcados_visitados_arr, tree_edges)
RECURSIVE ExecLoop(_, _, _, _, _, _)
ExecLoop(incidence, incidence_negativa, firing_queue, marcados_visitados, marcados_visitados_arr, tree_edges) ==
    IF Len(firing_queue) = 0
    THEN [nodes |-> marcados_visitados, edges |-> tree_edges]
    ELSE LET marcado == Head(firing_queue)[1]
             vector_disparo == Head(firing_queue)[2]
             nuevo_marcado ==
                 update_marking(fire_transition(marcado, incidence, vector_disparo),
                                marcados_visitados_arr)
         IN  IF nuevo_marcado \notin marcados_visitados
             THEN ExecLoop(incidence, incidence_negativa,
                           Tail(firing_queue) \o Firings(incidence_negativa, nuevo_marcado),
                           marcados_visitados \cup {nuevo_marcado},
                           Append(marcados_visitados_arr, nuevo_marcado),
                           Append(tree_edges,
                                  [from |-> marcado,
                                   transition |->
                                       CHOOSE i \in DOMAIN vector_disparo :
                                           vector_disparo[i] # 0
                                           /\ \A j \in DOMAIN vector_disparo :
                                                 vector_disparo[j] # 0 => i <= j,
                                   to |-> nuevo_marcado]))
             ELSE ExecLoop(incidence, incidence_negativa, Tail(firing_queue),
                           marcados_visitados, marcados_visitados_arr, tree_edges)

\* execute_petri_net
execute_petri_net(incidence_positiva, incidence_negativa, marcado_inicial) ==
    LET incidence == [p \in DOMAIN incidence_positiva |->
                         [t \in DOMAIN incidence_positiva[p] |->
                             incidence_positiva[p][t] - incidence_negativa[p][t]]]
    IN  ExecLoop(incidence, incidence_negativa,
                 Firings(incidence_negativa, marcado_inicial),
                 {marcado_inicial}, <<marcado_inicial>>, <<>>)

VARIABLES
    net,              \* the input of the run
    input_queues,     \* input_queues[sid]: FIFO of requests <<M, t>>
    result_queue,     \* FIFO of replies <<M, t, sid, local_res>>
    tasks_in_flight,
    nodes,            \* list of node records
    visited,          \* set of markings
    pending,          \* dict key <<M, t>> -> dict sid -> local marking
    counter,          \* next node name
    pc,               \* position of the coordinator
    wpc,              \* wpc[sid]: position of worker sid
    wreq,             \* wreq[sid]: the request worker sid is processing
    merges,           \* history: the merges completed so far
    dispatched,       \* history: how often each key <<M, t>> was enqueued
    zero_hits,        \* history: how often a decrement made the counter 0
    replied,          \* history: how often each reply was put on result_queue
    call,             \* a direct call of an evaluator: the function and its arguments
    ret,              \* the value the call returned
    epc               \* position of the direct call

\* the direct call of an evaluator, outside a run of the engine
evalvars == <<call, ret, epc>>

\* the run of the concurrent engine
enginevars == <<net, input_queues, result_queue, tasks_in_flight, nodes,
                visited, pending, counter, pc, wpc, wreq, merges, dispatched,
                zero_hits, replied>>

vars == <<net, input_queues, result_queue, tasks_in_flight, nodes, visited,
          pending, counter, pc, wpc, wreq, merges, dispatched, zero_hits,
          replied, call, ret, epc>>

(***************************************************************************)
(* petri_reachability_tree: arguments and local helpers                    *)
(***************************************************************************)
M0 == net.M0
I_minus == net.I_minus
I_plus == net.I_plus
subnets == BuildSubnets(net)
transition_subnets == TransitionSubnets(net)

P == Len(M0)
T == IF P > 0 THEN Len(I_minus[1]) ELSE 0
N == Len(subnets)

\* the test of global_enabled dropped: every transition is taken as enabled
EnabledAt_Always(M, t_idx) == TRUE

\* the test of global_enabled for one transition
EnabledAt(M, t_idx) == \A p \in 1..P : M[p] >= I_minus[p][t_idx]

\* global_enabled: the enabled transitions in increasing order
global_enabled(M) ==
    LET F[k \in 0..T] ==
            IF k = 0 THEN <<>>
            ELSE IF EnabledAt(M, k) THEN Append(F[k - 1], k)
            ELSE F[k - 1]
    IN  F[T]

\* enqueue that asks only the subnets owning t
enqueue_OwnersOnly(st, M, t) ==
    LET F[k \in 0..N] ==
            IF k = 0 THEN st
            ELSE IF t \in Range(subnets[k].trans_indices)
                 THEN [F[k - 1] EXCEPT !.input_queues[k] = Append(@, <<M, t>>),
                                       !.tasks_in_flight = @ + 1]
                 ELSE F[k - 1]
    IN  F[N]

\* enqueue on the fields input_queues and tasks_in_flight of st: one request
\* on every worker's queue, one increment per request
enqueue(st, M, t) ==
    LET F[k \in 0..N] ==
            IF k = 0 THEN st
            ELSE [F[k - 1] EXCEPT !.input_queues[k] = Append(@, <<M, t>>),
                                  !.tasks_in_flight = @ + 1]
    IN  F[N]

\* for t in ts: enqueue(M, t)
EnqueueEach(st, M, ts) ==
    LET F[k \in 0..Len(ts)] ==
            IF k = 0 THEN st ELSE enqueue(F[k - 1], M, ts[k])
    IN  F[Len(ts)]

\* every node given the name of the root, whatever the counter
NodeName_Root(k) == "m_" \o ToString(0)

\* name = f"m_{counter}"
NodeName(k) == "m_" \o ToString(k)

\* d[k] = v on a dict kept as its item list
DictSet(d, k, v) ==
    IF \E i \in DOMAIN d : d[i][1] = k
    THEN [i \in DOMAIN d |-> IF d[i][1] = k THEN <<k, v>> ELSE d[i]]
    ELSE Append(d, <<k, v>>)

\* pending.setdefault(key, {})[sid] = local_m; the value is pending[key]
Recorded(pend, key, sid, local_m) ==
    DictSet(IF key \in DOMAIN pend THEN pend[key] ELSE <<>>, sid, local_m)

\* the completion test of the coordinator
MergeComplete(entry, t) == Len(entry) = Len(transition_subnets[t])

\* the local result written by position instead of by place index
MergeLocal_ByPosition(new_M, place_indices, lm) ==
    LET F[k \in 0..Len(place_indices)] ==
            IF k = 0 THEN new_M
            ELSE [F[k - 1] EXCEPT ![k] = lm[k]]
    IN  F[Len(place_indices)]

\* for idx, p_idx in enumerate(place_indices): new_M[p_idx] = lm[idx]
MergeLocal(new_M, place_indices, lm) ==
    LET F[k \in 0..Len(place_indices)] ==
            IF k = 0 THEN new_M
            ELSE [F[k - 1] EXCEPT ![place_indices[k]] = lm[k]]
    IN  F[Len(place_indices)]

\* new_M = list(M_repr); for s_id, lm in pending[key].items(): ...
MergeAll(M_repr, entry) ==
    LET G[k \in 0..Len(entry)] ==
            IF k = 0 THEN M_repr
            ELSE MergeLocal(G[k - 1], subnets[entry[k][1]].place_indices,
                            entry[k][2])
    IN  G[Len(entry)]

\* the visited test dropped: every completed merge is taken for a new marking
NotVisited_NoCheck(new_M_tup, vis) == TRUE

\* if new_M_tup not in visited
NotVisited(new_M_tup, vis) == new_M_tup \notin vis

\* the parent taken to be the node created last
ParentName_Newest(ns, M_repr) == ns[Len(ns)].name

\* parent = next(n["name"] for n in nodes if n["value"] == M_repr)
ParentName(ns, M_repr) ==
    ns[CHOOSE i \in DOMAIN ns :
          /\ ns[i].value = M_repr
          /\ \A j \in DOMAIN ns : ns[j].value = M_repr => i <= j].name

\* str() of a list of integers, as an f-string formats it: "[1, -1]"
ListStr(M) ==
    LET F[k \in 0..Len(M)] ==
            IF k = 0 THEN ""
            ELSE F[k - 1] \o (IF k = 1 THEN "" ELSE ", ") \o ToString(M[k])
    IN  "[" \o F[Len(M)] \o "]"

\* f"{name}\n{list(value)}"
NodeLabel(name, value) == name \o "\n" \o ListStr(value)

\* the dict of the root node (it has no "trans" key)
RootNode == [name |-> NodeName(0), label |-> NodeLabel(NodeName(0), M0),
             value |-> M0, from |-> NoneName, trans |-> NoTrans]

NewNode(name, value, parent, t) ==
    [name |-> name, label |-> NodeLabel(name, value), value |-> value,
     from |-> parent, trans |-> t]

\* the keys <<M, u>> enqueued for the transitions ts, added to the history
Logged(log, M, ts) ==
    LET new == {<<M, ts[i]>> : i \in DOMAIN ts}
    IN  [k \in DOMAIN log \cup new |->
            (IF k \in DOMAIN log THEN log[k] ELSE 0)
            + Cardinality({i \in DOMAIN ts : <<M, ts[i]>> = k})]

\* one more occurrence of x in the history log
Counted(log, x) ==
    [k \in DOMAIN log \cup {x} |-> (IF k \in DOMAIN log THEN log[k] ELSE 0)
                                     + (IF k = x THEN 1 ELSE 0)]

WithinBound(M) == \A p \in DOMAIN M : M[p] <= MaxTok

\* no direct call of an evaluator is made during a run of the engine
NoCall == [fn |-> "none", M |-> <<>>, mat |-> <<>>, t |-> 0, hist |-> <<>>,
           n |-> NetCycleOne, sid |-> 0]

NoRet == [out |-> <<>>, nodes |-> {}, edges |-> <<>>]

Init ==
    /\ net \in Nets
    /\ input_queues = [sid \in 1..Len(net.subnet_definitions) |-> <<>>]
    /\ result_queue = <<>>
    /\ tasks_in_flight = 0
    /\ nodes = <<>>
    /\ visited = {}
    /\ pending = <<>>
    /\ counter = 1
    /\ pc = "start"
    /\ wpc = [sid \in 1..Len(net.subnet_definitions) |-> "get"]
    /\ wreq = [sid \in 1..Len(net.subnet_definitions) |-> <<NoMarking, NoTrans>>]
    /\ merges = {}
    /\ dispatched = <<>>
    /\ zero_hits = 0
    /\ replied = <<>>
    /\ call = NoCall
    /\ ret = NoRet
    /\ epc = "idle"

\* The coordinator-owned state the loop works on.
CoordState ==
    [input_queues |-> input_queues, tasks_in_flight |-> tasks_in_flight,
     nodes |-> nodes, visited |-> visited, pending |-> pending,
     counter |-> counter]

\* Root node, visited, seeding of the enabled transitions of M0.
Seeded(cs) ==
    LET st == EnqueueEach(cs, M0, global_enabled(M0))
    IN  [input_queues |-> st.input_queues,
         tasks_in_flight |-> st.tasks_in_flight,
         nodes |-> Append(cs.nodes, RootNode),
         visited |-> cs.visited \cup {M0},
         pending |-> <<>>,
         counter |-> 1]

\* One pass of the coordinator loop on a reply taken from the result queue:
\* record it, merge when complete, add the node and dispatch, decrement.
\* complete, fresh, entry and new_M_tup report what the pass did.
Handle(cs, reply) ==
    LET M_repr == reply[1]
        t == reply[2]
        sid == reply[3]
        local_m == reply[4]
        key == <<M_repr, t>>
        entry == Recorded(cs.pending, key, sid, local_m)
        complete == MergeComplete(entry, t)
        new_M_tup == MergeAll(M_repr, entry)
        fresh == complete /\ NotVisited(new_M_tup, cs.visited)
        st == IF fresh
              THEN EnqueueEach(cs, new_M_tup, global_enabled(new_M_tup))
              ELSE cs
    IN  [input_queues |-> st.input_queues,
         tasks_in_flight |-> st.tasks_in_flight - 1,
         nodes |-> IF fresh
                   THEN Append(cs.nodes,
                               NewNode(NodeName(cs.counter), new_M_tup,
                                       ParentName(cs.nodes, M_repr), t))
                   ELSE cs.nodes,
         visited |-> IF fresh THEN cs.visited \cup {new_M_tup} ELSE cs.visited,
         pending |-> IF complete
                     THEN [k \in DOMAIN cs.pending \ {key} |-> cs.pending[k]]
                     ELSE [k \in DOMAIN cs.pending \cup {key} |->
                              IF k = key THEN entry ELSE cs.pending[k]],
         counter |-> IF fresh THEN cs.counter + 1 ELSE cs.counter,
         complete |-> complete,
         fresh |-> fresh,
         entry |-> entry,
         new_M_tup |-> IF complete THEN new_M_tup ELSE NoMarking]

Seed ==
    /\ pc = "start"
    /\ LET cs == Seeded(CoordState)
       IN  /\ nodes' = cs.nodes
           /\ visited' = cs.visited
           /\ pending' = cs.pending
           /\ counter' = cs.counter
           /\ input_queues' = cs.input_queues
           /\ tasks_in_flight' = cs.tasks_in_flight
    /\ dispatched' = Logged(dispatched, M0, global_enabled(M0))
    /\ pc' = "wait"
    /\ UNCHANGED <<net, result_queue, wpc, wreq, merges, zero_hits>>
    /\ UNCHANGED <<replied, evalvars>>

CoordReply ==
    /\ pc = "wait"
    /\ result_queue # <<>>
    /\ LET reply == Head(result_queue)
           cs == Handle(CoordState, reply)
       IN  /\ cs.complete => WithinBound(cs.new_M_tup)
           /\ result_queue' = Tail(result_queue)
           /\ nodes' = cs.nodes
           /\ visited' = cs.visited
           /\ pending' = cs.pending
           /\ counter' = cs.counter
           /\ input_queues' = cs.input_queues
           /\ tasks_in_flight' = cs.tasks_in_flight
           /\ merges' =
                 IF cs.complete
                 THEN merges \cup
                        {[M |-> reply[1], t |-> reply[2],
                          sids |-> [i \in DOMAIN cs.entry |-> cs.entry[i][1]],
                          cand |-> cs.new_M_tup,
                          hist |-> [i \in DOMAIN nodes |-> nodes[i].value],
                          new |-> cs.fresh]}
                 ELSE merges
           /\ dispatched' =
                 IF cs.fresh
                 THEN Logged(dispatched, cs.new_M_tup, global_enabled(cs.new_M_tup))
                 ELSE dispatched
           /\ zero_hits' = IF cs.tasks_in_flight = 0 THEN zero_hits + 1
                           ELSE zero_hits
           /\ pc' = IF cs.tasks_in_flight = 0 THEN "shutdown" ELSE "wait"
    /\ UNCHANGED <<net, wpc, wreq, replied, evalvars>>

\* for q in input_queues: q.put((None, None))
Shutdown ==
    /\ pc = "shutdown"
    /\ input_queues' = [sid \in DOMAIN input_queues |->
                            Append(input_queues[sid], <<NoMarking, NoTrans>>)]
    /\ pc' = "join"
    /\ UNCHANGED <<net, result_queue, tasks_in_flight, nodes, visited, pending,
                   counter, wpc, wreq, merges, dispatched, zero_hits>>
    /\ UNCHANGED <<replied, evalvars>>

\* for thread in threads: thread.join(); return nodes
Join ==
    /\ pc = "join"
    /\ \A sid \in DOMAIN wpc : wpc[sid] = "stopped"
    /\ pc' = "done"
    /\ UNCHANGED <<net, input_queues, result_queue, tasks_in_flight, nodes,
                   visited, pending, counter, wpc, wreq, merges, dispatched,
                   zero_hits, replied, evalvars>>

\* worker: M, t = input_queues[sid].get(); break on (None, None)
WorkerGet(sid) ==
    /\ wpc[sid] = "get"
    /\ input_queues[sid] # <<>>
    /\ LET msg == Head(input_queues[sid])
       IN  IF msg[2] = NoTrans /\ msg[1] = NoMarking
           THEN /\ wpc' = [wpc EXCEPT ![sid] = "stopped"]
                /\ wreq' = wreq
           ELSE /\ wpc' = [wpc EXCEPT ![sid] = "fire"]
                /\ wreq' = [wreq EXCEPT ![sid] = msg]
    /\ input_queues' = [input_queues EXCEPT ![sid] = Tail(@)]
    /\ UNCHANGED <<net, result_queue, tasks_in_flight, nodes, visited, pending,
                   counter, pc, merges, dispatched, zero_hits, replied, evalvars>>

\* worker: local_res = subnets[sid].fire(M, t); result_queue.put(...)
WorkerPut(sid) ==
    /\ wpc[sid] = "fire"
    /\ LET M == wreq[sid][1]
           t == wreq[sid][2]
           local_res == fire(subnets[sid], M, t)
       IN  /\ result_queue' = Append(result_queue, <<M, t, sid, local_res>>)
           /\ replied' = Counted(replied, <<M, t, sid, local_res>>)
    /\ wpc' = [wpc EXCEPT ![sid] = "get"]
    /\ wreq' = [wreq EXCEPT ![sid] = <<NoMarking, NoTrans>>]
    /\ UNCHANGED <<net, input_queues, tasks_in_flight, nodes, visited, pending,
                   counter, pc, merges, dispatched, zero_hits, evalvars>>

Next ==
    \/ Seed
    \/ CoordReply
    \/ Shutdown
    \/ Join
    \/ \E sid \in DOMAIN wpc : WorkerGet(sid)
    \/ \E sid \in DOMAIN wpc : WorkerPut(sid)

Spec == Init /\ [][Next]_vars

\* Threads are scheduled fairly: the coordinator and every worker thread take
\* their next step when it stays possible.
FairSpec ==
    /\ Spec
    /\ WF_vars(Seed \/ CoordReply \/ Shutdown \/ Join)
    /\ \A sid \in 1..MaxSubnets :
          WF_vars(sid \in DOMAIN wpc /\ (WorkerGet(sid) \/ WorkerPut(sid)))

(***************************************************************************)
(* Direct calls of the evaluators of engine.py, of Subnet.fire and of the  *)
(* sequential engine, as the tests of src/src/test make them: one call on  *)
(* arguments drawn from bounded sets, no engine run.                       *)
(***************************************************************************)
\* the arguments have two places and two transitions, the shape the tests use
EvalPlaces == 1..2
EvalTrans == 1..2

EvalMarkings == [EvalPlaces -> {Omega} \cup 0..MaxVal]
EvalWeights == [EvalPlaces -> [EvalTrans -> 0..MaxVal]]
EvalIncidence == [EvalPlaces -> [EvalTrans -> (0 - MaxVal)..MaxVal]]
EvalHistories == UNION {[1..k -> EvalMarkings] : k \in 1..MaxHist}

\* the firing vector that selects transition t
OneHot(t, len) == [j \in 1..len |-> IF j = t THEN 1 ELSE 0]

\* the calls made: the function and its arguments
EvalCalls(c) ==
    \/ \E m \in EvalMarkings, w \in EvalWeights :
          c = [NoCall EXCEPT !.fn = "get_enabled_transitions", !.M = m, !.mat = w]
    \/ \E m \in EvalMarkings, w \in EvalIncidence, t \in EvalTrans :
          c = [NoCall EXCEPT !.fn = "fire_transition", !.M = m, !.mat = w, !.t = t]
    \/ \E m \in EvalMarkings, h \in EvalHistories :
          c = [NoCall EXCEPT !.fn = "update_marking", !.M = m, !.hist = h]
    \/ \E n \in Nets :
          \E sid \in DOMAIN n.subnet_definitions, t \in 1..NumTransitions(n) :
             c = [NoCall EXCEPT !.fn = "Subnet.fire", !.n = n, !.M = n.M0,
                                !.sid = sid, !.t = t]
    \/ \E n \in Nets :
          c = [NoCall EXCEPT !.fn = "execute_petri_net", !.n = n, !.M = n.M0]

EvalInit ==
    /\ EvalCalls(call)
    /\ ret = NoRet
    /\ epc = "call"
    /\ net = call.n
    /\ input_queues = <<>>
    /\ result_queue = <<>>
    /\ tasks_in_flight = 0
    /\ nodes = <<>>
    /\ visited = {}
    /\ pending = <<>>
    /\ counter = 1
    /\ pc = "off"
    /\ wpc = <<>>
    /\ wreq = <<>>
    /\ merges = {}
    /\ dispatched = <<>>
    /\ zero_hits = 0
    /\ replied = <<>>

Call_get_enabled_transitions ==
    /\ epc = "call"
    /\ call.fn = "get_enabled_transitions"
    /\ ret' = [NoRet EXCEPT !.out = get_enabled_transitions(call.mat, call.M)]
    /\ epc' = "returned"
    /\ UNCHANGED <<call, enginevars>>

Call_fire_transition ==
    /\ epc = "call"
    /\ call.fn = "fire_transition"
    /\ ret' = [NoRet EXCEPT !.out = fire_transition(call.M, call.mat,
                                                    OneHot(call.t, Len(call.mat[1])))]
    /\ epc' = "returned"
    /\ UNCHANGED <<call, enginevars>>

Call_update_marking ==
    /\ epc = "call"
    /\ call.fn = "update_marking"
    /\ ret' = [NoRet EXCEPT !.out = update_marking(call.M, call.hist)]
    /\ epc' = "returned"
    /\ UNCHANGED <<call, enginevars>>

Call_Subnet_fire ==
    /\ epc = "call"
    /\ call.fn = "Subnet.fire"
    /\ ret' = [NoRet EXCEPT !.out = fire(BuildSubnets(call.n)[call.sid],
                                         call.M, call.t)]
    /\ epc' = "returned"
    /\ UNCHANGED <<call, enginevars>>

Call_execute_petri_net ==
    /\ epc = "call"
    /\ call.fn = "execute_petri_net"
    /\ LET g == execute_petri_net(call.n.I_plus, call.n.I_minus, call.M)
       IN  ret' = [NoRet EXCEPT !.nodes = g.nodes, !.edges = g.edges]
    /\ epc' = "returned"
    /\ UNCHANGED <<call, enginevars>>

EvalNext ==
    \/ Call_get_enabled_transitions
    \/ Call_fire_transition
    \/ Call_update_marking
    \/ Call_Subnet_fire
    \/ Call_execute_petri_net

EvalSpec == EvalInit /\ [][EvalNext]_vars

\* the call of fn has returned
Returned(fn) == epc = "returned" /\ call.fn = fn

(***************************************************************************)
(* Vocabulary of the properties                                            *)
(***************************************************************************)
\* the fire requests (not the shutdown messages) waiting in a queue
Requests(q) == {i \in DOMAIN q : q[i][2] # NoTrans}

RECURSIVE SumOver(_, _)
SumOver(S, f) ==
    IF S = {} THEN 0
    ELSE LET x == CHOOSE y \in S : TRUE IN f[x] + SumOver(S \ {x}, f)

\* requests still queued + requests inside a worker + replies still queued
Outstanding ==
    SumOver(DOMAIN input_queues,
            [sid \in DOMAIN input_queues |-> Cardinality(Requests(input_queues[sid]))])
    + Cardinality({sid \in DOMAIN wpc : wpc[sid] = "fire"})
    + Len(result_queue)

\* the coordinator waits on the result queue for a reply that cannot come
CoordBlocked == pc = "wait" /\ Outstanding = 0

LeftLoop == pc \in {"shutdown", "join", "done"}

NodeMarkings == {nodes[i].value : i \in DOMAIN nodes}

\* the subnets that own t: t is in the subnet's transition subset
Owners(t) ==
    {s \in DOMAIN net.subnet_definitions :
        t \in Range(net.subnet_definitions[s].trans_indices)}

PlacesOf(s) == Range(net.subnet_definitions[s].place_indices)

\* M with the places of every subnet owning t updated by firing t
FiredByOwners(M, t) ==
    [p \in DOMAIN M |->
        IF \E s \in Owners(t) : p \in PlacesOf(s)
        THEN M[p] - net.I_minus[p][t] + net.I_plus[p][t]
        ELSE M[p]]

(***************************************************************************)
(* C1: every request put on a worker queue adds one to tasks_in_flight     *)
(* and every reply taken subtracts one: whenever the coordinator waits on  *)
(* the result queue the counter is the number of outstanding tasks, it is  *)
(* never negative, and in any run it becomes zero after a decrement        *)
(* exactly once, with nothing outstanding at that moment.                  *)
(***************************************************************************)
\* The accounting part of C1: the counter is the number of outstanding tasks
\* at every wait, never negative, zero after a decrement at most once and
\* then with nothing outstanding.
CounterAccounting ==
    /\ tasks_in_flight >= 0
    /\ pc = "wait" => tasks_in_flight = Outstanding
    /\ zero_hits <= 1
    /\ zero_hits = 1 => tasks_in_flight = 0 /\ Outstanding = 0
    /\ LeftLoop <=> zero_hits = 1

\* C1 in full: the accounting holds, and a run that is over (it returned, or
\* the coordinator is blocked for ever on the empty result queue with nothing
\* outstanding) has seen the counter become zero after a decrement once.
C1_ZeroExactlyOnce ==
    /\ CounterAccounting
    /\ (pc = "done" \/ CoordBlocked) => zero_hits = 1

(***************************************************************************)
(* C2: when the coordinator has left its loop the pending-merge table is   *)
(* empty.                                                                  *)
(***************************************************************************)
C2_NoPendingLeft == LeftLoop => DOMAIN pending = {}

(***************************************************************************)
(* C3: every completed merge for a key (M, t) merges the replies of        *)
(* exactly the subnets that own t, and its candidate is M with the places  *)
(* of the owning subnets updated by firing t and all other places          *)
(* unchanged.                                                              *)
(***************************************************************************)
C3_MergeOfOwners ==
    \A r \in merges :
        /\ Range(r.sids) = Owners(r.t)
        /\ r.cand = FiredByOwners(r.M, r.t)

(***************************************************************************)
(* More vocabulary: the result of a run, a reference run in which the      *)
(* workers answer in subnet order, and the markings of the global net.     *)
(***************************************************************************)
ValueOf(ns, name) == ns[CHOOSE i \in DOMAIN ns : ns[i].name = name].value

\* the (parent marking, transition, child marking) edges of a node list
EdgesOf(ns) ==
    {<<ValueOf(ns, ns[i].from), ns[i].trans, ns[i].value>> :
        i \in {j \in DOMAIN ns : ns[j].from # NoneName}}

ResultOf(ns) == [markings |-> {ns[i].value : i \in DOMAIN ns},
                 edges |-> EdgesOf(ns)]

\* One interleaving, as a function of the input: the coordinator takes a
\* reply whenever there is one; otherwise the worker of the lowest subnet
\* with a queued request answers it.
RECURSIVE InOrderRun(_, _)
InOrderRun(cs, rq) ==
    IF rq # <<>>
    THEN LET h == Handle(cs, Head(rq))
         IN  IF h.complete /\ ~WithinBound(h.new_M_tup) THEN cs
             ELSE IF h.tasks_in_flight = 0 THEN h
             ELSE InOrderRun(h, Tail(rq))
    ELSE IF \E sid \in DOMAIN cs.input_queues : cs.input_queues[sid] # <<>>
    THEN LET sid == CHOOSE x \in DOMAIN cs.input_queues :
                        /\ cs.input_queues[x] # <<>>
                        /\ \A y \in DOMAIN cs.input_queues :
                              cs.input_queues[y] # <<>> => x <= y
             msg == Head(cs.input_queues[sid])
         IN  InOrderRun([cs EXCEPT !.input_queues[sid] = Tail(@)],
                        <<<<msg[1], msg[2], sid, fire(subnets[sid], msg[1], msg[2])>>>>)
    ELSE cs

InOrderResult ==
    ResultOf(InOrderRun(Seeded([input_queues |-> [sid \in 1..N |-> <<>>],
                                tasks_in_flight |-> 0, nodes |-> <<>>,
                                visited |-> {}, pending |-> <<>>,
                                counter |-> 1]), <<>>).nodes)

\* t is enabled at M in the global net
NetEnabled(n, M, t) ==
    \A p \in DOMAIN M : M[p] = Omega \/ M[p] >= n.I_minus[p][t]

\* firing t at M in the global net
NetFire(n, M, t) ==
    [p \in DOMAIN M |->
        IF M[p] = Omega THEN Omega ELSE M[p] - n.I_minus[p][t] + n.I_plus[p][t]]

\* the markings reachable from M0; a marking above MaxTok is kept but not
\* expanded
RECURSIVE ReachFrom(_, _, _)
ReachFrom(n, frontier, seen) ==
    IF frontier = {} THEN seen
    ELSE LET succ == {NetFire(n, M, t) :
                        <<M, t>> \in {x \in frontier \X (1..NumTransitions(n)) :
                                        /\ \A p \in DOMAIN x[1] : x[1][p] <= MaxTok
                                        /\ NetEnabled(n, x[1], x[2])}}
         IN  ReachFrom(n, succ \ seen, seen \cup succ)

Reach(n) == ReachFrom(n, {n.M0}, {n.M0})

FiniteReach(n) == \A M \in Reach(n) : \A p \in DOMAIN M : M[p] <= MaxTok

FiniteMarking(M) == \A p \in DOMAIN M : M[p] # Omega

\* every place belongs to exactly one subnet
ValidPartition(n) ==
    \A p \in DOMAIN n.M0 :
        Cardinality({<<s, i>> \in (DOMAIN n.subnet_definitions) \X (DOMAIN n.M0) :
                        /\ i \in DOMAIN n.subnet_definitions[s].place_indices
                        /\ n.subnet_definitions[s].place_indices[i] = p}) = 1

(***************************************************************************)
(* C4: the result of a run does not depend on the order in which the       *)
(* replies arrive: every run that returns has the node markings and the    *)
(* edges of the run in which the workers answer in subnet order.           *)
(***************************************************************************)
C4_OrderIndependent == pc = "done" => ResultOf(nodes) = InOrderResult

(***************************************************************************)
(* C5: for a net with a finite initial marking, a valid subnet partition   *)
(* and finitely many reachable markings, the node markings of a drained    *)
(* run are exactly the markings reachable from M0.                         *)
(***************************************************************************)
C5_ExactlyReachable ==
    (LeftLoop /\ FiniteMarking(net.M0) /\ ValidPartition(net) /\ FiniteReach(net))
        => NodeMarkings = Reach(net)

(***************************************************************************)
(* C6: the graph never holds two nodes with the same marking, and a        *)
(* completed merge whose marking is already visited creates no node and    *)
(* dispatches no request (the coordinator only takes the reply and         *)
(* decrements the counter).                                                *)
(***************************************************************************)
NoTwoNodesPerMarking ==
    \A i, j \in DOMAIN nodes : nodes[i].value = nodes[j].value => i = j

DuplicateMergeIsDiscarded ==
    \A r \in merges' \ merges :
        r.cand \in visited =>
            /\ nodes' = nodes
            /\ visited' = visited
            /\ counter' = counter
            /\ input_queues' = input_queues
            /\ dispatched' = dispatched
            /\ tasks_in_flight' = tasks_in_flight - 1

\* C6: at most one node per marking, always, and every step that completes a
\* merge on a visited marking adds no node and enqueues nothing.
C6_Dedup == []NoTwoNodesPerMarking /\ [][DuplicateMergeIsDiscarded]_vars

\* a merge was completed on an already visited marking and discarded
C6_Witness ==
    /\ Len(nodes) >= 2
    /\ \E r \in merges : ~r.new /\ r.cand \in Range(r.hist)

(***************************************************************************)
(* C7: for a net with finitely many reachable markings, under fair         *)
(* scheduling the run reaches DRAINED, shuts the workers down and          *)
(* returns.                                                                *)
(***************************************************************************)
C7_Terminates ==
    FiniteReach(net) =>
        <>(pc = "done" /\ \A sid \in DOMAIN wpc : wpc[sid] = "stopped")

(***************************************************************************)
(* C8: the marking stored in a new node is the omega-widening              *)
(* (update_marking) of the merged candidate against all markings accepted  *)
(* so far, and the visited test is made on that widened marking.           *)
(***************************************************************************)
C8_StoresWidened ==
    \A r \in merges :
        LET canonical == update_marking(r.cand, r.hist)
            k == Len(r.hist) + 1
        IN  /\ r.new <=> canonical \notin Range(r.hist)
            /\ r.new => /\ k \in DOMAIN nodes
                        /\ nodes[k].value = canonical
                        /\ nodes[k].trans = r.t

(***************************************************************************)
(* C9: for every node marking M the transitions dispatched from M are      *)
(* exactly those t with, for every place p, M[p] omega or                  *)
(* M[p] >= I_minus[p][t], and each such (M, t) is dispatched exactly once. *)
(***************************************************************************)
C9_DispatchesEnabled ==
    /\ \A k \in DOMAIN dispatched : k[1] \in NodeMarkings
    /\ \A M \in NodeMarkings : \A t \in 1..NumTransitions(net) :
          IF \A p \in DOMAIN M : M[p] = Omega \/ M[p] >= net.I_minus[p][t]
          THEN <<M, t>> \in DOMAIN dispatched /\ dispatched[<<M, t>>] = 1
          ELSE <<M, t>> \notin DOMAIN dispatched

(***************************************************************************)
(* C10: the node markings returned by petri_reachability_tree are the      *)
(* markings visited by execute_petri_net on the same I_minus, I_plus, M0.  *)
(***************************************************************************)
C10_SameAsSequential ==
    pc = "done" =>
        NodeMarkings = execute_petri_net(net.I_plus, net.I_minus, net.M0).nodes

(***************************************************************************)
(* C11: for the two-place cycle net with M0 = [1,0] and a single subnet    *)
(* owning both places and both transitions the run produces exactly the    *)
(* 2 nodes [1,0] and [0,1] and exactly 2 directed edges forming a 2-cycle  *)
(* ([1,0] -> [0,1] and [0,1] -> [1,0]).                                    *)
(***************************************************************************)
C11_TwoCycle ==
    (pc = "done" /\ net = NetCycleOne) =>
        /\ Len(nodes) = 2
        /\ NodeMarkings = {<<1, 0>>, <<0, 1>>}
        /\ EdgesOf(nodes) = {<< <<1, 0>>, 1, <<0, 1>> >>,
                             << <<0, 1>>, 2, <<1, 0>> >>}

(***************************************************************************)
(* C12: get_enabled_transitions(I_minus, M) returns 1 for transition t if  *)
(* and only if for every place p, M[p] is omega or M[p] >= I_minus[p][t],  *)
(* and 0 otherwise.                                                        *)
(***************************************************************************)
C12_EnabledIff ==
    Returned("get_enabled_transitions") =>
        /\ DOMAIN ret.out = EvalTrans
        /\ \A t \in EvalTrans :
              /\ ret.out[t] \in {0, 1}
              /\ ret.out[t] = 1 <=>
                     \A p \in EvalPlaces :
                        call.M[p] = Omega \/ call.M[p] >= call.mat[p][t]

\* one transition is enabled only thanks to an unbounded place, another is
\* disabled by a bounded one
C12_Witness ==
    /\ Returned("get_enabled_transitions")
    /\ \E t, u \in EvalTrans :
          /\ ret.out[t] = 1
          /\ \E p \in EvalPlaces : call.M[p] = Omega /\ call.mat[p][t] > 0
          /\ ret.out[u] = 0

(***************************************************************************)
(* C13: fire_transition(M, incidence, v) for a one-hot v selecting t       *)
(* returns, for every place p, omega when M[p] is omega and                *)
(* M[p] + incidence[p][t] otherwise: an omega place stays omega whatever   *)
(* the incidence value is.                                                 *)
(***************************************************************************)
C13_FireKeepsOmega ==
    Returned("fire_transition") =>
        /\ DOMAIN ret.out = EvalPlaces
        /\ \A p \in EvalPlaces :
              ret.out[p] = IF call.M[p] = Omega THEN Omega
                           ELSE call.M[p] + call.mat[p][call.t]

\* an unbounded place with a non-zero incidence next to a bounded place
\* that changes
C13_Witness ==
    /\ Returned("fire_transition")
    /\ \E p, q \in EvalPlaces :
          /\ call.M[p] = Omega /\ call.mat[p][call.t] # 0 /\ ret.out[p] = Omega
          /\ call.M[q] # Omega /\ ret.out[q] # call.M[q]

(***************************************************************************)
(* C14: update_marking(candidate, history) returns the candidate with      *)
(* exactly the strict-set places replaced by omega.  The candidate covers  *)
(* K iff for every place p candidate[p] is omega or (K[p] is not omega and *)
(* candidate[p] >= K[p]); the strict set is the union over the covered K   *)
(* of the places where candidate[p] is omega and K[p] finite, or both are  *)
(* finite and candidate[p] > K[p].  Every other place keeps its value; if  *)
(* no K is covered, or no covered K is strictly exceeded, the candidate is *)
(* returned unchanged.                                                     *)
(***************************************************************************)
Covers(candidate, K) ==
    \A p \in DOMAIN candidate :
        candidate[p] = Omega \/ (K[p] # Omega /\ candidate[p] >= K[p])

StrictPlaces(candidate, K) ==
    {p \in DOMAIN candidate :
        \/ candidate[p] = Omega /\ K[p] # Omega
        \/ candidate[p] # Omega /\ K[p] # Omega /\ candidate[p] > K[p]}

StrictSet(candidate, history) ==
    UNION {StrictPlaces(candidate, history[k]) :
              k \in {j \in DOMAIN history : Covers(candidate, history[j])}}

C14_WidensStrictSet ==
    Returned("update_marking") =>
        /\ DOMAIN ret.out = DOMAIN call.M
        /\ \A p \in DOMAIN call.M :
              ret.out[p] = IF p \in StrictSet(call.M, call.hist) THEN Omega
                           ELSE call.M[p]
        /\ StrictSet(call.M, call.hist) = {} => ret.out = call.M

\* a history with a covered marking that is strictly exceeded at a finite
\* place and a marking that is exceeded somewhere but not covered
C14_Witness ==
    /\ Returned("update_marking")
    /\ \E p \in DOMAIN call.M : call.M[p] # Omega /\ ret.out[p] = Omega
    /\ \E p \in DOMAIN call.M : call.M[p] # Omega /\ ret.out[p] = call.M[p]
    /\ \E k \in DOMAIN call.hist :
          /\ ~Covers(call.M, call.hist[k])
          /\ StrictPlaces(call.M, call.hist[k]) \ StrictSet(call.M, call.hist) # {}

(***************************************************************************)
(* C15: in the exploration built from fire_transition and update_marking   *)
(* (execute_petri_net), for every edge from an accepted marking M to the   *)
(* marking M' derived from it, every place that is omega in M is omega in  *)
(* M'.                                                                     *)
(***************************************************************************)
C15_OmegaIsKept ==
    Returned("execute_petri_net") =>
        \A i \in DOMAIN ret.edges :
            /\ ret.edges[i].from \in ret.nodes
            /\ ret.edges[i].to \in ret.nodes
            /\ \A p \in DOMAIN ret.edges[i].from :
                  ret.edges[i].from[p] = Omega => ret.edges[i].to[p] = Omega

\* an edge that leaves a marking with an unbounded place and changes a
\* bounded one, and an edge on which a place becomes unbounded
C15_Witness ==
    /\ Returned("execute_petri_net")
    /\ \E i \in DOMAIN ret.edges :
          /\ \E p \in DOMAIN call.M : ret.edges[i].from[p] = Omega
          /\ ret.edges[i].from # ret.edges[i].to
    /\ \E i \in DOMAIN ret.edges : \E p \in DOMAIN call.M :
          ret.edges[i].from[p] # Omega /\ ret.edges[i].to[p] = Omega

(***************************************************************************)
(* C16: Subnet.fire(M_global, t) returns the local marking                 *)
(* [M_global[p] for p in place_indices] unchanged when t is not in the     *)
(* subnet's transition map; otherwise, for every place p of the subnet,    *)
(* omega when M_global[p] is omega and                                     *)
(* M_global[p] - I_minus[p][t] + I_plus[p][t] when it is finite.           *)
(***************************************************************************)
C16_SubnetFire ==
    Returned("Subnet.fire") =>
        LET def == call.n.subnet_definitions[call.sid]
        IN  /\ DOMAIN ret.out = DOMAIN def.place_indices
            /\ \A i \in DOMAIN def.place_indices :
                  LET p == def.place_indices[i]
                  IN  ret.out[i] =
                         IF call.t \notin Range(def.trans_indices)
                            \/ call.M[p] = Omega
                         THEN call.M[p]
                         ELSE call.M[p] - call.n.I_minus[p][call.t]
                                        + call.n.I_plus[p][call.t]

(***************************************************************************)
(* C17: building the subnets for a net whose place subsets do not          *)
(* partition the place index set (a place in no subnet or in two           *)
(* subnets), or with an index out of range or mismatched dimensions,       *)
(* fails with an InvalidNetError before any worker is started and before   *)
(* any node is created: such a net never gets a node or a request.         *)
(***************************************************************************)
C17_InvalidNetRejected ==
    ~ValidPartition(net) =>
        /\ pc = "start"
        /\ nodes = <<>>
        /\ tasks_in_flight = 0
        /\ \A sid \in DOMAIN wpc : wpc[sid] = "get" /\ input_queues[sid] = <<>>

(***************************************************************************)
(* C18: in the exported node labels an omega place is rendered as a        *)
(* distinguished non-numeric symbol: the label of a node whose marking     *)
(* has an omega component never shows the raw numeric sentinel -1.         *)
(***************************************************************************)
\* sub occurs in the string str
Contains(str, sub) ==
    \E i \in 1..(Len(str) - Len(sub) + 1) :
        SubSeq(str, i, i + Len(sub) - 1) = sub

\* the node lines nodes_to_dot writes: name [label="..."];
DotNodeLine(n) == n.name \o " [label=\"" \o n.label \o "\"];"

\* the edge lines nodes_to_dot writes: from -> name [label="t<trans>"];
DotEdgeLine(n) ==
    n.from \o " -> " \o n.name \o " [label=\"t" \o ToString(n.trans - 1) \o "\"];"

\* the list lines of nodes_to_dot with an edge line for every node, the test
\* n.get("from") left out
lines_AllEdges(ns) ==
    LET NodeLines == [i \in DOMAIN ns |-> DotNodeLine(ns[i])]
        E[k \in 0..Len(ns)] ==
            IF k = 0 THEN <<>>
            ELSE Append(E[k - 1], DotEdgeLine(ns[k]))
    IN  <<"digraph G {">> \o NodeLines \o E[Len(ns)] \o <<"}">>

\* the list lines of nodes_to_dot before it is joined
lines(ns) ==
    LET NodeLines == [i \in DOMAIN ns |-> DotNodeLine(ns[i])]
        E[k \in 0..Len(ns)] ==
            IF k = 0 THEN <<>>
            ELSE IF ns[k].from # NoneName
                 THEN Append(E[k - 1], DotEdgeLine(ns[k]))
                 ELSE E[k - 1]
    IN  <<"digraph G {">> \o NodeLines \o E[Len(ns)] \o <<"}">>

\* nodes_to_dot: "\n".join(lines)
nodes_to_dot(ns) ==
    LET L == lines(ns)
        J[k \in 0..Len(L)] ==
            IF k = 0 THEN ""
            ELSE J[k - 1] \o (IF k = 1 THEN "" ELSE "\n") \o L[k]
    IN  J[Len(L)]

C18_OmegaNotRaw ==
    \A i \in DOMAIN nodes :
        (\E p \in DOMAIN nodes[i].value : nodes[i].value[p] = Omega)
            => ~Contains(DotNodeLine(nodes[i]), ToString(Omega))

(***************************************************************************)
(* C19: for every dispatched key (origin marking, transition) at most one  *)
(* merge is completed in the whole run: a reply that arrives after the     *)
(* key's pending entry was deleted only creates a fresh entry that never   *)
(* completes, so it gives no second candidate, no node and no dispatch.    *)
(***************************************************************************)
\* the merges completed for the key <<M, t>>
MergesOf(M, t) == {r \in merges : r.M = M /\ r.t = t}

C19_OneMergePerKey ==
    /\ \A k \in DOMAIN dispatched : Cardinality(MergesOf(k[1], k[2])) <= 1
    /\ \A r \in merges : <<r.M, r.t>> \in DOMAIN dispatched

(***************************************************************************)
(* C20: every dispatch of a key (marking, transition) puts exactly one     *)
(* request on the input queue of each of the N subnet workers, owner or    *)
(* not, and each worker answers each request with exactly one reply        *)
(* (origin marking, transition, its own subnet index, local result): each  *)
(* dispatched key yields exactly N replies, one per subnet, and the reply  *)
(* of a non-owning worker carries its unchanged local marking.             *)
(***************************************************************************)
\* the requests for key k waiting on the queue of worker sid
QueuedFor(sid, k) ==
    Cardinality({i \in DOMAIN input_queues[sid] : input_queues[sid][i] = k})

\* 1 when worker sid is processing a request for key k
InWorker(sid, k) == IF wpc[sid] = "fire" /\ wreq[sid] = k THEN 1 ELSE 0

\* the replies worker sid has put for key k
RepliesOf(sid, k) ==
    SumOver({r \in DOMAIN replied : r[1] = k[1] /\ r[2] = k[2] /\ r[3] = sid},
            replied)

\* the local marking of subnet sid at M
LocalMarking(sid, M) ==
    [i \in DOMAIN net.subnet_definitions[sid].place_indices |->
        M[net.subnet_definitions[sid].place_indices[i]]]

C20_OneRequestOneReply ==
    /\ \A k \in DOMAIN dispatched : \A sid \in DOMAIN input_queues :
          /\ QueuedFor(sid, k) + InWorker(sid, k) + RepliesOf(sid, k)
                = dispatched[k]
          /\ LeftLoop => RepliesOf(sid, k) = dispatched[k]
    /\ \A sid \in DOMAIN input_queues : \A i \in Requests(input_queues[sid]) :
          input_queues[sid][i] \in DOMAIN dispatched
    /\ \A r \in DOMAIN replied :
          /\ <<r[1], r[2]>> \in DOMAIN dispatched
          /\ r[3] \in DOMAIN input_queues
          /\ r[3] \notin Owners(r[2]) => r[4] = LocalMarking(r[3], r[1])
    /\ LeftLoop =>
          \A k \in DOMAIN dispatched :
              SumOver(DOMAIN input_queues,
                      [sid \in DOMAIN input_queues |-> RepliesOf(sid, k)])
                  = dispatched[k] * Len(net.subnet_definitions)

\* a run of at least two subnets has returned after a non-owning worker
\* answered a dispatched key
C20_Witness ==
    /\ pc = "done"
    /\ Len(net.subnet_definitions) >= 2
    /\ \E r \in DOMAIN replied :
          /\ r[3] \notin Owners(r[2])
          /\ r[4] = LocalMarking(r[3], r[1])
          /\ \E q \in DOMAIN replied :
                q[1] = r[1] /\ q[2] = r[2] /\ q[3] \in Owners(r[2])

(***************************************************************************)
(* C21: every non-root node has a parent name that names a node created    *)
(* earlier whose marking is the origin marking of the firing that          *)
(* produced it, and its trans is the transition of that firing; the root   *)
(* m_0 has no parent.  So parent links are acyclic and every node reaches  *)
(* m_0 by following them.                                                  *)
(***************************************************************************)
C21_ParentIsOrigin ==
    \A i \in DOMAIN nodes :
        IF i = 1
        THEN nodes[i].from = NoneName /\ nodes[i].trans = NoTrans
        ELSE \E j \in 1..(i - 1) :
                /\ nodes[i].from = nodes[j].name
                /\ \A k \in DOMAIN nodes : nodes[k].name = nodes[i].from => k = j
                /\ \E r \in merges :
                      /\ r.new
                      /\ Len(r.hist) = i - 1
                      /\ r.cand = nodes[i].value
                      /\ r.M = nodes[j].value
                      /\ r.t = nodes[i].trans

\* a third or later node whose parent is the root, not the node created just
\* before it, next to a node whose parent is not the root
C21_Witness ==
    /\ pc = "done"
    /\ \E i \in DOMAIN nodes :
          /\ i > 2
          /\ nodes[i].from = nodes[1].name
    /\ \E i \in DOMAIN nodes : i > 1 /\ nodes[i].from # nodes[1].name

(***************************************************************************)
(* C22: the graph grows monotonically during a run: no coordinator step    *)
(* removes a node or changes the name, marking, parent or transition of    *)
(* an existing node, and no marking ever leaves the visited set; the root  *)
(* node for the initial marking is the first node from seeding on and is   *)
(* never replaced or given a parent, even when the initial marking is      *)
(* derived again.                                                          *)
(***************************************************************************)
\* every step keeps the nodes there are, as they are, and the visited set
GraphOnlyGrows ==
    /\ Len(nodes') >= Len(nodes)
    /\ \A i \in DOMAIN nodes : nodes'[i] = nodes[i]
    /\ visited \subseteq visited'

\* from seeding on the first node is the root, and no other node is made for
\* the initial marking
RootStaysRoot ==
    pc # "start" =>
        /\ Len(nodes) >= 1
        /\ nodes[1] = RootNode
        /\ M0 \in visited
        /\ \A i \in DOMAIN nodes : nodes[i].value = M0 => i = 1

C22_GrowsMonotonically == [][GraphOnlyGrows]_vars /\ []RootStaysRoot

\* the initial marking was derived again by a completed merge after other
\* nodes were created
C22_Witness ==
    /\ Len(nodes) >= 2
    /\ \E r \in merges : r.cand = M0 /\ ~r.new /\ Len(r.hist) >= 2

(***************************************************************************)
(* C23: firing and merging have no effect outside their own places:        *)
(* Subnet.fire never modifies the global marking it receives and returns   *)
(* exactly one value per place of its own subnet, a worker step changes no *)
(* coordinator-owned state (nodes, visited, pending, counter), and the     *)
(* merge writes subnet s's local result only to s's place indices, so a    *)
(* place whose owning subnet took no part in the merge keeps the origin    *)
(* marking's value and the origin marking itself is not altered.           *)
(***************************************************************************)
\* the values the replies of the subnets sids for the key <<M, t>> hold for
\* place p
WrittenTo(p, M, t, sids) ==
    {rr[4][idx] :
        <<rr, idx>> \in
            {x \in (DOMAIN replied) \X (DOMAIN M) :
                /\ x[1][1] = M /\ x[1][2] = t /\ x[1][3] \in Range(sids)
                /\ x[2] \in DOMAIN net.subnet_definitions[x[1][3]].place_indices
                /\ net.subnet_definitions[x[1][3]].place_indices[x[2]] = p}}

MergeStaysInPlaces ==
    /\ \A rr \in DOMAIN replied :
          DOMAIN rr[4] = DOMAIN net.subnet_definitions[rr[3]].place_indices
    /\ \A r \in merges :
          /\ DOMAIN r.cand = DOMAIN r.M
          /\ r.M \in NodeMarkings
          /\ \A p \in DOMAIN r.M :
                IF \E s \in Range(r.sids) : p \in PlacesOf(s)
                THEN r.cand[p] \in WrittenTo(p, r.M, r.t, r.sids)
                ELSE r.cand[p] = r.M[p]

\* a step of a worker: it leaves the coordinator's state and the requests of
\* the other workers alone, and its reply carries the marking it was sent
WorkerStepKeepsCoordinatorState ==
    \A sid \in DOMAIN wpc :
        wpc'[sid] # wpc[sid] =>
            /\ UNCHANGED <<nodes, visited, pending, counter>>
            /\ \A other \in DOMAIN wpc \ {sid} :
                  input_queues'[other] = input_queues[other]
            /\ wpc[sid] = "fire" =>
                  /\ Len(result_queue') = Len(result_queue) + 1
                  /\ result_queue'[Len(result_queue')][1] = wreq[sid][1]
                  /\ input_queues' = input_queues

C23_NoEffectOutsideOwnPlaces ==
    []MergeStaysInPlaces /\ [][WorkerStepKeepsCoordinatorState]_vars

\* a merge changed a place of a subnet that replied and kept a place of a
\* subnet that took no part in it
C23_Witness ==
    \E r \in merges :
        /\ r.cand # r.M
        /\ \E p \in DOMAIN r.M : \A s \in Range(r.sids) : p \notin PlacesOf(s)
        /\ \E s \in Range(r.sids) : Len(net.subnet_definitions[s].place_indices) = 1
                                     /\ net.subnet_definitions[s].place_indices[1] # 1

(***************************************************************************)
(* C24: the result of update_marking(candidate, history) does not depend   *)
(* on the order of the markings in history nor on duplicates in it: every  *)
(* rearrangement, with or without repetitions, of the same set of known    *)
(* markings gives the same returned marking.                               *)
(***************************************************************************)
\* the histories of at most len rows that list exactly the rows of history
Rearrangements(history, len) ==
    {[i \in 1..k |-> history[f[i]]] :
        <<k, f>> \in
            {x \in UNION {{k} \X [1..k -> DOMAIN history] : k \in 1..len} :
                \A j \in DOMAIN history : \E i \in 1..x[1] : x[2][i] = j}}

C24_HistoryOrderIrrelevant ==
    Returned("update_marking") =>
        \A h \in Rearrangements(call.hist, Len(call.hist) + 1) :
            update_marking(call.M, h) = ret.out

\* two different known markings, both covered, that are strictly exceeded at
\* different places
C24_Witness ==
    /\ Returned("update_marking")
    /\ Len(call.hist) = 2
    /\ Covers(call.M, call.hist[1]) /\ Covers(call.M, call.hist[2])
    /\ StrictPlaces(call.M, call.hist[1]) # StrictPlaces(call.M, call.hist[2])
    /\ StrictPlaces(call.M, call.hist[1]) # {}
    /\ StrictPlaces(call.M, call.hist[2]) # {}

(***************************************************************************)
(* C25: nodes_to_dot emits one node line per node in creation order with   *)
(* the root m_0 first, no edge whose target is the root, and exactly one   *)
(* edge line parent -> child labelled with the firing transition for every *)
(* non-root node, all edge lines after all node lines.                     *)
(***************************************************************************)
StartsWith(str, pre) == Len(str) >= Len(pre) /\ SubSeq(str, 1, Len(pre)) = pre

IsEdgeLine(str) == Contains(str, " -> ")

C25_DotLayout ==
    Len(nodes) >= 1 =>
        LET L == lines(nodes)
            n == Len(nodes)
        IN  /\ L[1] = "digraph G {" /\ L[Len(L)] = "}"
            /\ Len(L) >= n + 2
            /\ StartsWith(L[2], "m_0 [label=")
            /\ \A i \in 1..n :
                  /\ StartsWith(L[i + 1], nodes[i].name \o " [label=\"" \o nodes[i].name)
                  /\ ~IsEdgeLine(L[i + 1])
            /\ \A j \in (n + 2)..(Len(L) - 1) : IsEdgeLine(L[j])
            /\ \A j \in 1..Len(L) : ~Contains(L[j], "-> m_0 ")
            /\ \A i \in 2..n :
                  \E j \in (n + 2)..(Len(L) - 1) :
                      /\ StartsWith(L[j], nodes[i].from \o " -> "
                                             \o nodes[i].name \o " ")
                      /\ Contains(L[j], "[label=\"t"
                                           \o ToString(nodes[i].trans - 1) \o "\"]")
                      /\ \A k \in (n + 2)..(Len(L) - 1) :
                            Contains(L[k], "-> " \o nodes[i].name \o " ") <=> k = j
            /\ Len(L) = 2 * n + 1
            /\ Contains(nodes_to_dot(nodes), "];\n}")

\* a finished run whose graph has a node whose parent is not the root
C25_Witness ==
    /\ pc = "done"
    /\ Len(nodes) >= 3
    /\ \E i \in DOMAIN nodes :
          nodes[i].from # NoneName /\ nodes[i].from # nodes[1].name
    /\ Len(lines(nodes)) = 2 * Len(nodes) + 1

(***************************************************************************)
(* C26: a run in which nothing is dispatched at seeding (no transition is  *)
(* enabled at the initial marking, or there is no subnet to send to) still *)
(* terminates: the coordinator never waits on the result queue when no     *)
(* request was sent, and the run returns the graph of the root node alone. *)
(* A coordinator that waits with nothing sent can never be woken, so the   *)
(* state in which it waits refutes termination in a finite run.            *)
(***************************************************************************)
NothingDispatchedAtSeeding ==
    N = 0 \/ Len(global_enabled(M0)) = 0

C26_EmptySeedingReturnsRoot ==
    (pc # "start" /\ NothingDispatchedAtSeeding) =>
        /\ pc # "wait"
        /\ nodes = <<RootNode>>
        /\ tasks_in_flight = 0

(***************************************************************************)
(* C27: update_marking is idempotent for a fixed history:                  *)
(* update_marking(update_marking(c, H), H) = update_marking(c, H) for      *)
(* every candidate c and history H.                                        *)
(***************************************************************************)
C27_Idempotent ==
    Returned("update_marking") =>
        update_marking(ret.out, call.hist) = ret.out

(***************************************************************************)
(* C27, as the code behaves: update_marking makes a single pass and is not *)
(* idempotent, because its result can cover markings of H that the         *)
(* candidate did not cover.  A second application with the same history    *)
(* only adds omegas to the first result; it returns the first result       *)
(* unchanged exactly when the first result strictly exceeds, in a finite   *)
(* place, no marking of H that it covers, and in particular whenever the   *)
(* first result covers no marking of H that the candidate did not cover.   *)
(***************************************************************************)
C27_SecondPassOnlyAddsOmega ==
    Returned("update_marking") =>
        LET r == ret.out
            r2 == update_marking(r, call.hist)
            Exceeded == \E k \in DOMAIN call.hist :
                            /\ Covers(r, call.hist[k])
                            /\ \E p \in DOMAIN r :
                                  /\ r[p] # Omega
                                  /\ call.hist[k][p] # Omega
                                  /\ r[p] > call.hist[k][p]
        IN  /\ DOMAIN r2 = DOMAIN r
            /\ \A p \in DOMAIN r : r2[p] = r[p] \/ r2[p] = Omega
            /\ (r2 = r) <=> ~Exceeded
            /\ (\A k \in DOMAIN call.hist :
                    Covers(r, call.hist[k]) => Covers(call.M, call.hist[k]))
                  => r2 = r

\* a call whose result covers a marking the candidate did not cover, so that
\* a second application widens one more place
C27_Witness ==
    /\ Returned("update_marking")
    /\ ret.out # call.M
    /\ update_marking(ret.out, call.hist) # ret.out
    /\ \E k \in DOMAIN call.hist :
          Covers(ret.out, call.hist[k]) /\ ~Covers(call.M, call.hist[k])

(***************************************************************************)
(* C28: when the initial marking has only non-negative token counts, every *)
(* component of every node marking is non-negative in every reachable      *)
(* state, for every subnet partition, ownership map and reply              *)
(* interleaving: firing never drives a place below zero, so the sentinel   *)
(* -1 is never produced by arithmetic.                                     *)
(***************************************************************************)
C28_NeverNegative ==
    (\A p \in DOMAIN M0 : M0[p] >= 0) =>
        /\ \A i \in DOMAIN nodes :
              \A p \in DOMAIN nodes[i].value : nodes[i].value[p] >= 0
        /\ \A rr \in DOMAIN replied : \A idx \in DOMAIN rr[4] : rr[4][idx] >= 0
        /\ \A r \in merges : \A p \in DOMAIN r.cand : r.cand[p] >= 0

\* a firing took the last token of a place: a node whose marking has a zero
\* where the marking of its parent had a token, in a net of several subnets
C28_Witness ==
    /\ \A p \in DOMAIN M0 : M0[p] >= 0
    /\ N >= 2
    /\ \E i \in DOMAIN nodes, j \in DOMAIN nodes :
          /\ nodes[i].from = nodes[j].name
          /\ \E p \in DOMAIN M0 : nodes[i].value[p] = 0 /\ nodes[j].value[p] > 0

(***************************************************************************)
(* C29: in every reachable state of the coordinator the visited set equals *)
(* exactly the set of node markings, node names are pairwise distinct, and *)
(* the k-th created node is named m_k (from seeding on, the name counter   *)
(* equals the number of nodes), so the parent lookup by marking finds      *)
(* exactly one node for the origin of every request that was dispatched.   *)
(***************************************************************************)
C29_VisitedIsNodes ==
    /\ visited = NodeMarkings
    /\ \A i \in DOMAIN nodes, j \in DOMAIN nodes :
          nodes[i].name = nodes[j].name => i = j
    /\ \A k \in DOMAIN nodes : nodes[k].name = "m_" \o ToString(k - 1)
    /\ pc # "start" => counter = Len(nodes)
    /\ \A key \in DOMAIN dispatched :
          Cardinality({i \in DOMAIN nodes : nodes[i].value = key[1]}) = 1

\* a finished run of several nodes in which a marking was derived again and
\* discarded
C29_Witness ==
    /\ pc = "done"
    /\ Len(nodes) >= 3
    /\ counter = Len(nodes)
    /\ \E r \in merges : ~r.new /\ r.cand \in visited

====
